---- MODULE Spec2Model ----
(***************************************************************************)
(* Model of the axum server of src/main.rs: seven stateless POST handlers  *)
(* (keypair generation, message signing and verification, and four         *)
(* instruction builders).                                                  *)
(*                                                                         *)
(* Texts that pass through a codec (identifiers, secrets, signatures,      *)
(* messages) are sequences of ASCII codes; byte strings are sequences over *)
(* 0..255; a u64 is its eight little-endian bytes.  Error messages and     *)
(* JSON keys are TLA+ strings.                                             *)
(*                                                                         *)
(* The crates the handlers call (bs58, solana_sdk, spl_token) are modelled *)
(* by what they compute.  Base-58 is the real conversion.  Ed25519 is      *)
(* replaced by an idealised scheme over real-sized keys and signatures:    *)
(* the public key is a bijective image of the seed, and a signature is     *)
(* accepted for (public key, message) exactly when it is the one the       *)
(* matching seed produces for that message.                                *)
(***************************************************************************)
EXTENDS Integers, Sequences, FiniteSets, TLC

VARIABLES rng, issued, signed, slots

vars == <<rng, issued, signed, slots>>

(***************************************************************************)
(* Bounds                                                                  *)
(***************************************************************************)
\* keypairs the process-wide random source hands out in one run
MaxKeys == 2
\* requests in flight at once in the concurrent specification
NumWorkers == 2

(***************************************************************************)
(* Sequences                                                               *)
(***************************************************************************)
Reverse(s) == [i \in 1..Len(s) |-> s[Len(s) + 1 - i]]

Zeros(n) == [i \in 1..n |-> 0]

\* length of the longest prefix of s whose entries all equal v (take_while)
LeadingCount(s, v) ==
    IF \A i \in 1..Len(s) : s[i] = v THEN Len(s)
    ELSE (CHOOSE i \in 1..Len(s) : s[i] # v /\ \A k \in 1..(i - 1) : s[k] = v) - 1

(***************************************************************************)
(* bs58                                                                    *)
(***************************************************************************)
\* "123456789ABCDEFGHJKLMNPQRSTUVWXYZabcdefghijkmnopqrstuvwxyz"
ALPHABET ==
    <<49, 50, 51, 52, 53, 54, 55, 56, 57, 65, 66, 67, 68, 69, 70, 71, 72, 74,
      75, 76, 77, 78, 80, 81, 82, 83, 84, 85, 86, 87, 88, 89, 90, 97, 98, 99,
      100, 101, 102, 103, 104, 105, 106, 107, 109, 110, 111, 112, 113, 114,
      115, 116, 117, 118, 119, 120, 121, 122>>

\* the alphabet's decode table: digit value of a character, 255 when absent
DecodeChar(c) ==
    IF \E k \in 1..Len(ALPHABET) : ALPHABET[k] = c
    THEN (CHOOSE k \in 1..Len(ALPHABET) : ALPHABET[k] = c) - 1
    ELSE 255

\* for d in out[lo..hi] { carry += d * mul; d = carry % base; carry /= base }
\* (the range is split in halves, and the left half is forced before the
\* right one starts, to keep the evaluation shallow)
RECURSIVE Pass(_, _, _, _, _, _)
Pass(out, lo, hi, carry, mul, base) ==
    IF lo > hi THEN [out |-> out, carry |-> carry]
    ELSE IF lo = hi
         THEN LET c == carry + out[lo] * mul
              IN [out |-> [out EXCEPT ![lo] = c % base], carry |-> c \div base]
         ELSE LET mid == (lo + hi) \div 2
                  left == Pass(out, lo, mid, carry, mul, base)
              IN IF left.carry < 0 THEN left  \* left half first
                 ELSE Pass(left.out, mid + 1, hi, left.carry, mul, base)

\* while carry > 0 { out.push(carry % base); carry /= base }
RECURSIVE Spill(_, _, _)
Spill(out, carry, base) ==
    IF carry > 0 THEN Spill(Append(out, carry % base), carry \div base, base)
    ELSE out

\* one input digit folded into the little-endian accumulator
MulAdd(out, digit, mul, base) ==
    LET p == Pass(out, 1, Len(out), digit, mul, base)
    IN Spill(p.out, p.carry, base)

\* the accumulator after input[lo..hi], starting from out
RECURSIVE Convert(_, _, _, _, _, _)
Convert(input, lo, hi, out, mul, base) ==
    IF lo > hi THEN out
    ELSE IF lo = hi THEN MulAdd(out, input[lo], mul, base)
         ELSE LET mid == (lo + hi) \div 2
                  left == Convert(input, lo, mid, out, mul, base)
              IN IF Len(left) < 0 THEN left  \* left half first
                 ELSE Convert(input, mid + 1, hi, left, mul, base)

\* bs58's encode_into: the base-58 text of a byte string
encode_into(bytes) ==
    LET digits == Convert(bytes, 1, Len(bytes), <<>>, 256, 58)
                      \o Zeros(LeadingCount(bytes, 0))
    IN Reverse([i \in 1..Len(digits) |-> ALPHABET[digits[i] + 1]])

\* bs58's decode_into: the byte string of a base-58 text, or an error
decode_into(text) ==
    IF \E i \in 1..Len(text) : text[i] > 127 \/ DecodeChar(text[i]) = 255
    THEN [ok |-> FALSE, bytes |-> <<>>]
    ELSE LET digits == [i \in 1..Len(text) |-> DecodeChar(text[i])]
             acc == Convert(digits, 1, Len(digits), <<>>, 58, 256)
                        \o Zeros(LeadingCount(text, ALPHABET[1]))
         IN [ok |-> TRUE, bytes |-> Reverse(acc)]

(***************************************************************************)
(* solana_sdk: keys and signatures (ed25519, idealised)                     *)
(***************************************************************************)
PUBKEY_BYTES == 32
MAX_BASE58_LEN == 44
SIGNATURE_BYTES == 64
MAX_BASE58_SIGNATURE_LEN == 88
SECRET_KEY_LENGTH == 32
KEYPAIR_LENGTH == 64

\* the public key of a 32-byte seed (idealised: a bijection on 32-byte strings)
PublicFromSecret(seed) ==
    [j \in 1..SECRET_KEY_LENGTH |-> (seed[j] * 5 + 7 * j + 3) % 256]

\* the seed a public key belongs to (205 * 5 = 1 mod 256)
SecretOfPublic(pub) ==
    [j \in 1..PUBKEY_BYTES |-> ((pub[j] + 256 * 2 - 7 * j - 3) * 205) % 256]

\* idealised message digest, salted by the position it is used at
RECURSIVE Digest(_, _, _)
Digest(msg, i, salt) ==
    IF i > Len(msg) THEN salt
    ELSE (Digest(msg, i + 1, salt) * 31 + msg[i] + i) % 256

\* the 64 signature bytes of msg under (seed, pub)
SignBytes(seed, pub, msg) ==
    [j \in 1..SIGNATURE_BYTES |->
        IF j <= 32 THEN (seed[j] * 3 + Digest(msg, 1, j)) % 256
        ELSE (pub[j - 32] + seed[j - 32] * Digest(msg, 1, j) + j) % 256]

\* Signature::verify(pubkey_bytes, message_bytes)
SignatureVerify(sig, pub, msg) ==
    /\ Len(pub) = PUBKEY_BYTES
    /\ Len(sig) = SIGNATURE_BYTES
    /\ sig = SignBytes(SecretOfPublic(pub), pub, msg)

\* Keypair::from_bytes that also takes a bare 32-byte seed and derives the rest
KeypairFromBytes_seed(bytes) ==
    IF Len(bytes) = SECRET_KEY_LENGTH
    THEN [ok |-> TRUE, secret |-> bytes, public |-> PublicFromSecret(bytes)]
    ELSE IF Len(bytes) # KEYPAIR_LENGTH
         THEN [ok |-> FALSE, secret |-> <<>>, public |-> <<>>]
         ELSE LET secret == SubSeq(bytes, 1, SECRET_KEY_LENGTH)
                  public == SubSeq(bytes, SECRET_KEY_LENGTH + 1, KEYPAIR_LENGTH)
              IN IF public # PublicFromSecret(secret)
                 THEN [ok |-> FALSE, secret |-> <<>>, public |-> <<>>]
                 ELSE [ok |-> TRUE, secret |-> secret, public |-> public]

\* Keypair::from_bytes: 64 bytes, secret half then the public half it derives
KeypairFromBytes(bytes) ==
    IF Len(bytes) # KEYPAIR_LENGTH THEN [ok |-> FALSE, secret |-> <<>>, public |-> <<>>]
    ELSE LET secret == SubSeq(bytes, 1, SECRET_KEY_LENGTH)
             public == SubSeq(bytes, SECRET_KEY_LENGTH + 1, KEYPAIR_LENGTH)
         IN IF public # PublicFromSecret(secret)
            THEN [ok |-> FALSE, secret |-> <<>>, public |-> <<>>]
            ELSE [ok |-> TRUE, secret |-> secret, public |-> public]

\* the n-th 32-byte draw of the process-wide random source
OsRng(n) == [j \in 1..SECRET_KEY_LENGTH |-> (n * 37 + j * 11 + 5) % 256]

\* Keypair::new() on the n-th draw
KeypairNew(n) ==
    [ok |-> TRUE, secret |-> OsRng(n), public |-> PublicFromSecret(OsRng(n))]

\* Keypair::to_bytes()
KeypairToBytes(kp) == kp.secret \o kp.public

\* Keypair::sign_message(message)
SignMessage(kp, msg) == SignBytes(kp.secret, kp.public, msg)

(***************************************************************************)
(* Texts and numbers the clients use                                       *)
(***************************************************************************)
EMPTY == <<>>
\* "not-base58!!"
NOT_BASE58 == <<110, 111, 116, 45, 98, 97, 115, 101, 53, 56, 33, 33>>
\* "hello"
HELLO == <<104, 101, 108, 108, 111>>
\* "hellp"
HELLP == <<104, 101, 108, 108, 112>>

\* two keypairs known to the clients beforehand
TestSeed(k) == [j \in 1..SECRET_KEY_LENGTH |-> (k * 91 + j * 17 + 1) % 256]
TestKeypair(k) ==
    [ok |-> TRUE, secret |-> TestSeed(k), public |-> PublicFromSecret(TestSeed(k))]

U64_ZERO == Zeros(8)
U64_ONE == <<1, 0, 0, 0, 0, 0, 0, 0>>
U64_MAX == [i \in 1..8 |-> 255]


\* spl_token::ID
SPL_TOKEN_ID_TEXT ==
    <<84, 111, 107, 101, 110, 107, 101, 103, 81, 102, 101, 90, 121, 105, 78,
      119, 65, 74, 98, 78, 98, 71, 75, 80, 70, 88, 67, 87, 117, 66, 118, 102,
      57, 83, 115, 54, 50, 51, 86, 81, 53, 68, 65>>

(***************************************************************************)
(* The conversions of the texts and byte strings that occur in a run are   *)
(* computed once; any other input is converted on the spot.                *)
(***************************************************************************)
KnownKeypairs ==
    {TestKeypair(k) : k \in 1..2} \cup {KeypairNew(n) : n \in 0..(MaxKeys - 1)}

KnownBytes ==
    {k.public : k \in KnownKeypairs}
       \cup {KeypairToBytes(k) : k \in KnownKeypairs}
       \cup {SignMessage(k, m) : k \in KnownKeypairs, m \in {HELLO, HELLP}}
       \cup {<<2, 0, 0, 0>> \o n : n \in {U64_ONE, U64_MAX}}
       \cup {<<3>> \o n : n \in {U64_ZERO, U64_ONE, U64_MAX}}
       \cup {Zeros(PUBKEY_BYTES), Zeros(SIGNATURE_BYTES), Zeros(SIGNATURE_BYTES - 1),
             SubSeq(TestKeypair(1).public, 1, PUBKEY_BYTES - 1),
             TestKeypair(1).public \o <<7>>,
             TestKeypair(1).secret,
             TestKeypair(1).secret \o TestKeypair(2).public,
             KeypairToBytes(TestKeypair(1)) \o <<1>>}

EncodeTable == {<<b, encode_into(b)>> : b \in KnownBytes}

KnownTexts == {e[2] : e \in EncodeTable} \cup {EMPTY, NOT_BASE58, SPL_TOKEN_ID_TEXT}

DecodeTable == {<<t, decode_into(t)>> : t \in KnownTexts}

\* bs58::encode(bytes).into_string()
EncodeBase58(bytes) ==
    IF \E e \in EncodeTable : e[1] = bytes
    THEN (CHOOSE e \in EncodeTable : e[1] = bytes)[2]
    ELSE encode_into(bytes)

\* bs58::decode(text).into_vec()
DecodeBase58(text) ==
    IF \E e \in DecodeTable : e[1] = text
    THEN (CHOOSE e \in DecodeTable : e[1] = text)[2]
    ELSE decode_into(text)

(***************************************************************************)
(* solana_sdk: Pubkey and Signature texts                                   *)
(***************************************************************************)
\* str::parse::<Pubkey>()
PubkeyFromStr(text) ==
    IF Len(text) > MAX_BASE58_LEN THEN [ok |-> FALSE, bytes |-> <<>>]
    ELSE LET d == DecodeBase58(text)
         IN IF ~d.ok \/ Len(d.bytes) # PUBKEY_BYTES
            THEN [ok |-> FALSE, bytes |-> <<>>]
            ELSE d

\* str::parse::<Signature>()
SignatureFromStr(text) ==
    IF Len(text) > MAX_BASE58_SIGNATURE_LEN THEN [ok |-> FALSE, bytes |-> <<>>]
    ELSE LET d == DecodeBase58(text)
         IN IF ~d.ok \/ Len(d.bytes) # SIGNATURE_BYTES
            THEN [ok |-> FALSE, bytes |-> <<>>]
            ELSE d

\* Pubkey::to_string(), Signature::to_string()
ToBase58String(bytes) == EncodeBase58(bytes)

(***************************************************************************)
(* solana_sdk / spl_token: instructions                                    *)
(***************************************************************************)
\* AccountMeta::new(pubkey, is_signer)
AccountMetaNew(pubkey, is_signer) ==
    [pubkey |-> pubkey, is_signer |-> is_signer, is_writable |-> TRUE]

\* AccountMeta::new_readonly(pubkey, is_signer)
AccountMetaNewReadonly(pubkey, is_signer) ==
    [pubkey |-> pubkey, is_signer |-> is_signer, is_writable |-> FALSE]

\* spl_token::ID as bytes
SPL_TOKEN_ID == DecodeBase58(SPL_TOKEN_ID_TEXT).bytes

\* system_program::ID, "11111111111111111111111111111111"
SYSTEM_PROGRAM_ID == Zeros(PUBKEY_BYTES)

\* the instruction a handler holds when its builder did not run or failed
NoInstruction ==
    [built |-> FALSE, program_id |-> <<>>, accounts |-> <<>>, data |-> <<>>]

Instruction(program_id, accounts, data) ==
    [built |-> TRUE, program_id |-> program_id, accounts |-> accounts, data |-> data]

\* system_instruction::transfer(from, to, lamports)
system_instruction_transfer(from_pubkey, to_pubkey, lamports) ==
    Instruction(SYSTEM_PROGRAM_ID,
                <<AccountMetaNew(from_pubkey, TRUE), AccountMetaNew(to_pubkey, FALSE)>>,
                <<2, 0, 0, 0>> \o lamports)

\* spl_token::instruction::initialize_mint2
initialize_mint2(token_program_id, mint_pubkey, mint_authority, freeze_authority, decimals) ==
    IF token_program_id # SPL_TOKEN_ID THEN NoInstruction
    ELSE Instruction(token_program_id,
                     <<AccountMetaNew(mint_pubkey, FALSE)>>,
                     <<20, decimals>> \o mint_authority \o <<1>> \o freeze_authority)

\* the AccountMeta appended for each multisig signer
SignerMetas(signer_pubkeys) ==
    [i \in 1..Len(signer_pubkeys) |-> AccountMetaNewReadonly(signer_pubkeys[i], TRUE)]

\* spl_token::instruction::mint_to
mint_to(token_program_id, mint_pubkey, account_pubkey, owner_pubkey, signer_pubkeys, amount) ==
    IF token_program_id # SPL_TOKEN_ID THEN NoInstruction
    ELSE Instruction(token_program_id,
                     <<AccountMetaNew(mint_pubkey, FALSE),
                       AccountMetaNew(account_pubkey, FALSE),
                       AccountMetaNewReadonly(owner_pubkey, signer_pubkeys = <<>>)>>
                         \o SignerMetas(signer_pubkeys),
                     <<7>> \o amount)

\* spl_token::instruction::transfer
token_instruction_transfer(token_program_id, source_pubkey, destination_pubkey, authority_pubkey, signer_pubkeys, amount) ==
    IF token_program_id # SPL_TOKEN_ID THEN NoInstruction
    ELSE Instruction(token_program_id,
                     <<AccountMetaNew(source_pubkey, FALSE),
                       AccountMetaNew(destination_pubkey, FALSE),
                       AccountMetaNewReadonly(authority_pubkey, signer_pubkeys = <<>>)>>
                         \o SignerMetas(signer_pubkeys),
                     <<3>> \o amount)

(***************************************************************************)
(* Responses                                                               *)
(***************************************************************************)
OK == 200
BAD_REQUEST == 400

\* (StatusCode::BAD_REQUEST, Json(json!({ "success": false, "error": error })))
Failure(error) ==
    [status |-> BAD_REQUEST,
     body |-> [success |-> FALSE, error |-> error],
     ix |-> NoInstruction]

\* (StatusCode::OK, Json(json!({ "success": true, "data": data })))
Success(data, ix) ==
    [status |-> OK, body |-> [success |-> TRUE, data |-> data], ix |-> ix]

\* u64 == 0, on the eight little-endian bytes
IsZero(amount) == \A i \in 1..Len(amount) : amount[i] = 0

(***************************************************************************)
(* Handlers: the reply each one computes for its extracted payload.        *)
(* payload.ok is FALSE when the Json extractor rejected the body.          *)
(***************************************************************************)
\* generate_keypair, on the n-th draw of the random source
generate_keypair_reply(n) ==
    LET keypair == KeypairNew(n)
    IN IF ToBase58String(keypair.public) = <<>>
       THEN Failure("Failed to generate keypair")
       ELSE Success([pubkey |-> ToBase58String(keypair.public),
                     secret |-> EncodeBase58(KeypairToBytes(keypair))],
                    NoInstruction)

\* instr.accounts mapped to {pubkey, is_signer, is_writable}
AccountsJson(accounts) ==
    [i \in 1..Len(accounts) |->
        [pubkey |-> ToBase58String(accounts[i].pubkey),
         is_signer |-> accounts[i].is_signer,
         is_writable |-> accounts[i].is_writable]]

\* create_token handing the builder the authority where the mint belongs
create_token_reply_swapped(payload) ==
    LET token_details == payload.v
        mint == PubkeyFromStr(token_details.mint)
        mint_authority == PubkeyFromStr(token_details.mintAuthority)
        ix == initialize_mint2(SPL_TOKEN_ID, mint_authority.bytes, mint.bytes,
                               mint_authority.bytes, token_details.decimals)
    IN IF ~payload.ok THEN Failure("Invalid request body")
       ELSE IF \/ token_details.mintAuthority = <<>>
               \/ token_details.mint = <<>>
               \/ token_details.decimals = 0
            THEN Failure("Missing required fields")
       ELSE IF ~mint.ok THEN Failure("Invalid sender address")
       ELSE IF ~mint_authority.ok THEN Failure("Invalid sender address")
       ELSE IF ix.built
            THEN Success([program_id |-> ToBase58String(ix.program_id),
                          accounts |-> AccountsJson(ix.accounts),
                          instruction_data |-> ix.data], ix)
            ELSE Failure("Hello")

create_token_reply(payload) ==
    LET token_details == payload.v
        mint == PubkeyFromStr(token_details.mint)
        mint_authority == PubkeyFromStr(token_details.mintAuthority)
        ix == initialize_mint2(SPL_TOKEN_ID, mint.bytes, mint_authority.bytes,
                               mint_authority.bytes, token_details.decimals)
    IN IF ~payload.ok THEN Failure("Invalid request body")
       ELSE IF \/ token_details.mintAuthority = <<>>
               \/ token_details.mint = <<>>
               \/ token_details.decimals = 0
            THEN Failure("Missing required fields")
       ELSE IF ~mint.ok THEN Failure("Invalid sender address")
       ELSE IF ~mint_authority.ok THEN Failure("Invalid sender address")
       ELSE IF ix.built
            THEN Success([program_id |-> ToBase58String(ix.program_id),
                          accounts |-> AccountsJson(ix.accounts),
                          instruction_data |-> ix.data], ix)
            ELSE Failure("Hello")

token_mint_reply(payload) ==
    LET mint_details == payload.v
        mint_key == PubkeyFromStr(mint_details.mint)
        authority_pubkey == PubkeyFromStr(mint_details.authority)
        destination_pubkey == PubkeyFromStr(mint_details.destination)
        ix == mint_to(SPL_TOKEN_ID, mint_key.bytes, destination_pubkey.bytes,
                      authority_pubkey.bytes, <<authority_pubkey.bytes>>,
                      mint_details.amount)
    IN IF ~payload.ok THEN Failure("Invalid request body")
       ELSE IF \/ mint_details.mint = <<>>
               \/ mint_details.destination = <<>>
               \/ mint_details.authority = <<>>
               \/ IsZero(mint_details.amount)
            THEN Failure("Missing required fields")
       ELSE IF ~mint_key.ok THEN Failure("Invalid sender address")
       ELSE IF ~authority_pubkey.ok THEN Failure("Invalid sender address")
       ELSE IF ~destination_pubkey.ok THEN Failure("Invalid sender address")
       ELSE IF ix.built
            THEN Success([program_id |-> ToBase58String(ix.program_id),
                          accounts |-> AccountsJson(ix.accounts),
                          instruction_data |-> ix.data], ix)
            ELSE Failure("Hello")

\* message_verify checking against the bytes of the pubkey text
message_verify_reply_textkey(payload) ==
    LET verify_details == payload.v
        pubkey == PubkeyFromStr(verify_details.pubkey)
        signature == SignatureFromStr(verify_details.signature)
        is_valid == SignatureVerify(signature.bytes, verify_details.pubkey,
                                    verify_details.message)
    IN IF ~payload.ok THEN Failure("Invalid request body")
       ELSE IF \/ verify_details.message = <<>>
               \/ verify_details.signature = <<>>
               \/ verify_details.pubkey = <<>>
            THEN Failure("Missing required fields")
       ELSE IF ~pubkey.ok THEN Failure("Invalid public key format")
       ELSE IF ~signature.ok THEN Failure("Invalid signature format")
       ELSE Success([valid |-> is_valid,
                     message |-> verify_details.message,
                     pubkey |-> verify_details.pubkey], NoInstruction)

\* message_verify answering a signature that does not verify with an error
message_verify_reply_strict(payload) ==
    LET verify_details == payload.v
        pubkey == PubkeyFromStr(verify_details.pubkey)
        signature == SignatureFromStr(verify_details.signature)
        is_valid == SignatureVerify(signature.bytes, pubkey.bytes, verify_details.message)
    IN IF ~payload.ok THEN Failure("Invalid request body")
       ELSE IF \/ verify_details.message = <<>>
               \/ verify_details.signature = <<>>
               \/ verify_details.pubkey = <<>>
            THEN Failure("Missing required fields")
       ELSE IF ~pubkey.ok THEN Failure("Invalid public key format")
       ELSE IF ~signature.ok THEN Failure("Invalid signature format")
       ELSE IF ~is_valid THEN Failure("Invalid signature")
       ELSE Success([valid |-> is_valid,
                     message |-> verify_details.message,
                     pubkey |-> verify_details.pubkey], NoInstruction)

message_verify_reply(payload) ==
    LET verify_details == payload.v
        pubkey == PubkeyFromStr(verify_details.pubkey)
        signature == SignatureFromStr(verify_details.signature)
        is_valid == SignatureVerify(signature.bytes, pubkey.bytes, verify_details.message)
    IN IF ~payload.ok THEN Failure("Invalid request body")
       ELSE IF \/ verify_details.message = <<>>
               \/ verify_details.signature = <<>>
               \/ verify_details.pubkey = <<>>
            THEN Failure("Missing required fields")
       ELSE IF ~pubkey.ok THEN Failure("Invalid public key format")
       ELSE IF ~signature.ok THEN Failure("Invalid signature format")
       ELSE Success([valid |-> is_valid,
                     message |-> verify_details.message,
                     pubkey |-> verify_details.pubkey], NoInstruction)

\* message_sign salting the message with the state of the shared random source
message_sign_reply_nonce(payload) ==
    LET sign_details == payload.v
        secret_bytes == DecodeBase58(sign_details.secret)
        keypair == KeypairFromBytes(secret_bytes.bytes)
        signature == SignMessage(keypair, sign_details.message \o <<rng>>)
    IN IF ~payload.ok THEN Failure("Invalid request body")
       ELSE IF sign_details.message = <<>> \/ sign_details.secret = <<>>
            THEN Failure("Missing required fields")
       ELSE IF ~secret_bytes.ok THEN Failure("Invalid secret key format")
       ELSE IF ~keypair.ok THEN Failure("Invalid keypair bytes")
       ELSE Success([signature |-> ToBase58String(signature),
                     public_key |-> ToBase58String(keypair.public),
                     message |-> sign_details.message], NoInstruction)

message_sign_reply(payload) ==
    LET sign_details == payload.v
        secret_bytes == DecodeBase58(sign_details.secret)
        keypair == KeypairFromBytes(secret_bytes.bytes)
        signature == SignMessage(keypair, sign_details.message)
    IN IF ~payload.ok THEN Failure("Invalid request body")
       ELSE IF sign_details.message = <<>> \/ sign_details.secret = <<>>
            THEN Failure("Missing required fields")
       ELSE IF ~secret_bytes.ok THEN Failure("Invalid secret key format")
       ELSE IF ~keypair.ok THEN Failure("Invalid keypair bytes")
       ELSE Success([signature |-> ToBase58String(signature),
                     public_key |-> ToBase58String(keypair.public),
                     message |-> sign_details.message], NoInstruction)

\* instruction.accounts mapped to their pubkey texts
PubkeysJson(accounts) ==
    [i \in 1..Len(accounts) |-> ToBase58String(accounts[i].pubkey)]

\* transfer_sol without the zero-lamports check
transfer_sol_reply_nozero(payload) ==
    LET details == payload.v
        from_pubkey == PubkeyFromStr(details.from)
        to_pubkey == PubkeyFromStr(details.to)
        instruction == system_instruction_transfer(from_pubkey.bytes, to_pubkey.bytes,
                                                   details.lamports)
    IN IF ~payload.ok THEN Failure("Invalid request body")
       ELSE IF details.from = <<>> \/ details.to = <<>>
            THEN Failure("Missing required fields")
       ELSE IF ~from_pubkey.ok THEN Failure("Invalid sender address")
       ELSE IF ~to_pubkey.ok THEN Failure("Invalid recipient address")
       ELSE Success([program_id |-> ToBase58String(instruction.program_id),
                     accounts |-> PubkeysJson(instruction.accounts),
                     instruction_data |-> EncodeBase58(instruction.data)],
                    instruction)

\* transfer_sol checking the amount before it parses the addresses
transfer_sol_reply_amountfirst(payload) ==
    LET details == payload.v
        from_pubkey == PubkeyFromStr(details.from)
        to_pubkey == PubkeyFromStr(details.to)
        instruction == system_instruction_transfer(from_pubkey.bytes, to_pubkey.bytes,
                                                   details.lamports)
    IN IF ~payload.ok THEN Failure("Invalid request body")
       ELSE IF details.from = <<>> \/ details.to = <<>>
            THEN Failure("Missing required fields")
       ELSE IF IsZero(details.lamports) THEN Failure("Amount must be greater than 0")
       ELSE IF ~from_pubkey.ok THEN Failure("Invalid sender address")
       ELSE IF ~to_pubkey.ok THEN Failure("Invalid recipient address")
       ELSE Success([program_id |-> ToBase58String(instruction.program_id),
                     accounts |-> PubkeysJson(instruction.accounts),
                     instruction_data |-> EncodeBase58(instruction.data)],
                    instruction)

transfer_sol_reply(payload) ==
    LET details == payload.v
        from_pubkey == PubkeyFromStr(details.from)
        to_pubkey == PubkeyFromStr(details.to)
        instruction == system_instruction_transfer(from_pubkey.bytes, to_pubkey.bytes,
                                                   details.lamports)
    IN IF ~payload.ok THEN Failure("Invalid request body")
       ELSE IF details.from = <<>> \/ details.to = <<>>
            THEN Failure("Missing required fields")
       ELSE IF ~from_pubkey.ok THEN Failure("Invalid sender address")
       ELSE IF ~to_pubkey.ok THEN Failure("Invalid recipient address")
       ELSE IF IsZero(details.lamports) THEN Failure("Amount must be greater than 0")
       ELSE Success([program_id |-> ToBase58String(instruction.program_id),
                     accounts |-> PubkeysJson(instruction.accounts),
                     instruction_data |-> EncodeBase58(instruction.data)],
                    instruction)

\* ix.accounts mapped to {pubkey, is_signer}
SignersJson(accounts) ==
    [i \in 1..Len(accounts) |->
        [pubkey |-> ToBase58String(accounts[i].pubkey),
         is_signer |-> accounts[i].is_signer]]

\* transfer_token that never parses the mint it does not use
transfer_token_reply_nomint(payload) ==
    LET details == payload.v
        from_pubkey == PubkeyFromStr(details.owner)
        to_pubkey == PubkeyFromStr(details.destination)
        ix == token_instruction_transfer(SPL_TOKEN_ID, from_pubkey.bytes, to_pubkey.bytes,
                                         from_pubkey.bytes, <<>>, details.amount)
    IN IF ~payload.ok THEN Failure("Invalid request body")
       ELSE IF \/ details.owner = <<>>
               \/ details.destination = <<>>
               \/ details.mint = <<>>
            THEN Failure("Missing required fields")
       ELSE IF ~from_pubkey.ok THEN Failure("Invalid sender address")
       ELSE IF ~to_pubkey.ok THEN Failure("Invalid recipient address")
       ELSE IF ix.built
            THEN Success([program_id |-> ToBase58String(ix.program_id),
                          accounts |-> SignersJson(ix.accounts),
                          instruction_data |-> EncodeBase58(ix.data)], ix)
            ELSE Failure("Amount must be greater than 0")

\* transfer_token with the commented-out zero-amount check enabled
transfer_token_reply_zerocheck(payload) ==
    LET details == payload.v
        from_pubkey == PubkeyFromStr(details.owner)
        to_pubkey == PubkeyFromStr(details.destination)
        mint_pubkey == PubkeyFromStr(details.mint)
        ix == token_instruction_transfer(SPL_TOKEN_ID, from_pubkey.bytes, to_pubkey.bytes,
                                         from_pubkey.bytes, <<>>, details.amount)
    IN IF ~payload.ok THEN Failure("Invalid request body")
       ELSE IF \/ details.owner = <<>>
               \/ details.destination = <<>>
               \/ details.mint = <<>>
            THEN Failure("Missing required fields")
       ELSE IF ~from_pubkey.ok THEN Failure("Invalid sender address")
       ELSE IF ~to_pubkey.ok THEN Failure("Invalid recipient address")
       ELSE IF ~mint_pubkey.ok THEN Failure("Invalid mint address")
       ELSE IF IsZero(details.amount) THEN Failure("Amount must be greater than 0")
       ELSE IF ix.built
            THEN Success([program_id |-> ToBase58String(ix.program_id),
                          accounts |-> SignersJson(ix.accounts),
                          instruction_data |-> EncodeBase58(ix.data)], ix)
            ELSE Failure("Amount must be greater than 0")

transfer_token_reply(payload) ==
    LET details == payload.v
        from_pubkey == PubkeyFromStr(details.owner)
        to_pubkey == PubkeyFromStr(details.destination)
        mint_pubkey == PubkeyFromStr(details.mint)
        ix == token_instruction_transfer(SPL_TOKEN_ID, from_pubkey.bytes, to_pubkey.bytes,
                                         from_pubkey.bytes, <<>>, details.amount)
    IN IF ~payload.ok THEN Failure("Invalid request body")
       ELSE IF \/ details.owner = <<>>
               \/ details.destination = <<>>
               \/ details.mint = <<>>
            THEN Failure("Missing required fields")
       ELSE IF ~from_pubkey.ok THEN Failure("Invalid sender address")
       ELSE IF ~to_pubkey.ok THEN Failure("Invalid recipient address")
       ELSE IF ~mint_pubkey.ok THEN Failure("Invalid mint address")
       ELSE IF ix.built
            THEN Success([program_id |-> ToBase58String(ix.program_id),
                          accounts |-> SignersJson(ix.accounts),
                          instruction_data |-> EncodeBase58(ix.data)], ix)
            ELSE Failure("Amount must be greater than 0")

(***************************************************************************)
(* Inputs the clients draw their requests from                             *)
(***************************************************************************)
ID_A == ToBase58String(TestKeypair(1).public)
ID_B == ToBase58String(TestKeypair(2).public)
ID_ZERO == ToBase58String(Zeros(PUBKEY_BYTES))
\* base-58 of 31 and of 33 bytes
ID_SHORT == EncodeBase58(SubSeq(TestKeypair(1).public, 1, PUBKEY_BYTES - 1))
ID_LONG == EncodeBase58(TestKeypair(1).public \o <<7>>)

SECRET_A == EncodeBase58(KeypairToBytes(TestKeypair(1)))
\* the 32-byte seed alone
SECRET_SEED_ONLY == EncodeBase58(TestKeypair(1).secret)
\* 64 bytes whose public half belongs to another seed
SECRET_MISMATCH == EncodeBase58(TestKeypair(1).secret \o TestKeypair(2).public)
\* 65 bytes
SECRET_LONG == EncodeBase58(KeypairToBytes(TestKeypair(1)) \o <<1>>)

SIG_A_HELLO == ToBase58String(SignMessage(TestKeypair(1), HELLO))
\* 64 bytes no key ever signs, and 63 bytes
SIG_GARBAGE == EncodeBase58(Zeros(SIGNATURE_BYTES))
SIG_SHORT == EncodeBase58(Zeros(SIGNATURE_BYTES - 1))

IdTexts == {ID_A, ID_ZERO, EMPTY, NOT_BASE58, ID_SHORT, ID_LONG}
Messages == {EMPTY, HELLO, HELLP}
Amounts == {U64_ZERO, U64_ONE, U64_MAX}
Decimals == {0, 1, 9, 255}
SecretTexts == {SECRET_A, SECRET_SEED_ONLY, SECRET_MISMATCH, SECRET_LONG, NOT_BASE58, EMPTY}
SignatureTexts == {SIG_A_HELLO, SIG_GARBAGE, SIG_SHORT, NOT_BASE58, EMPTY}

Endpoints ==
    {"generate_keypair", "create_token", "token_mint", "message_sign",
     "message_verify", "transfer_sol", "transfer_token"}

Request(ep, ok, v) == [ep |-> ep, payload |-> [ok |-> ok, v |-> v]]

\* struct TokenDetails
TokenDetails(mintAuthority, mint, decimals) ==
    [mintAuthority |-> mintAuthority, mint |-> mint, decimals |-> decimals]
\* struct TokenMint
TokenMint(mint, destination, authority, amount) ==
    [mint |-> mint, destination |-> destination, authority |-> authority, amount |-> amount]
\* struct MessageSign
MessageSign(message, secret) == [message |-> message, secret |-> secret]
\* struct MessageVerify
MessageVerify(message, signature, pubkey) ==
    [message |-> message, signature |-> signature, pubkey |-> pubkey]
\* struct TransferSol
TransferSol(from, to, lamports) == [from |-> from, to |-> to, lamports |-> lamports]
\* struct TransferToken
TransferToken(owner, destination, mint, amount) ==
    [owner |-> owner, destination |-> destination, mint |-> mint, amount |-> amount]

\* bodies the Json extractor rejects never reach the handler's struct
Rejected(ep) ==
    Request(ep, FALSE,
            CASE ep = "create_token" -> TokenDetails(EMPTY, EMPTY, 0)
              [] ep = "token_mint" -> TokenMint(EMPTY, EMPTY, EMPTY, U64_ZERO)
              [] ep = "message_sign" -> MessageSign(EMPTY, EMPTY)
              [] ep = "message_verify" -> MessageVerify(EMPTY, EMPTY, EMPTY)
              [] ep = "transfer_sol" -> TransferSol(EMPTY, EMPTY, U64_ZERO)
              [] ep = "transfer_token" -> TransferToken(EMPTY, EMPTY, EMPTY, U64_ZERO))

\* every request a client can send, given the keypairs and the signature it holds
Requests(keys, sig) ==
    LET pubkeys == IdTexts \cup {ID_B} \cup {k.pubkey : k \in keys}
        secrets == SecretTexts \cup {k.secret : k \in keys}
        signatures == SignatureTexts \cup (IF sig.has THEN {sig.signature} ELSE {})
    IN {Request("generate_keypair", TRUE, [none |-> TRUE])}
       \cup {Rejected(ep) : ep \in Endpoints \ {"generate_keypair"}}
       \cup {Request("create_token", TRUE, TokenDetails(a, m, d)) :
                a \in IdTexts, m \in IdTexts, d \in Decimals}
       \cup {Request("token_mint", TRUE, TokenMint(m, d, a, n)) :
                m \in IdTexts, d \in IdTexts, a \in IdTexts, n \in Amounts}
       \cup {Request("message_sign", TRUE, MessageSign(m, k)) :
                m \in Messages, k \in secrets}
       \cup {Request("message_verify", TRUE, MessageVerify(m, g, p)) :
                m \in Messages, g \in signatures, p \in pubkeys}
       \cup {Request("transfer_sol", TRUE, TransferSol(f, t, n)) :
                f \in IdTexts, t \in IdTexts, n \in Amounts}
       \cup {Request("transfer_token", TRUE, TransferToken(o, d, m, n)) :
                o \in IdTexts, d \in IdTexts, m \in IdTexts, n \in Amounts}

\* the requests sent while others are in flight
ConcurrentRequests ==
    {Request("generate_keypair", TRUE, [none |-> TRUE]),
     Request("create_token", TRUE, TokenDetails(ID_A, ID_ZERO, 9)),
     Request("token_mint", TRUE, TokenMint(ID_ZERO, ID_A, ID_A, U64_ONE)),
     Request("message_sign", TRUE, MessageSign(HELLO, SECRET_A)),
     Request("message_verify", TRUE, MessageVerify(HELLO, SIG_A_HELLO, ID_A)),
     Request("transfer_sol", TRUE, TransferSol(ID_A, NOT_BASE58, U64_ZERO)),
     Request("transfer_token", TRUE, TransferToken(ID_A, ID_ZERO, ID_A, U64_ZERO))}

(***************************************************************************)
(* State                                                                   *)
(*   rng     draws taken from the process-wide random source               *)
(*   issued  keypair data the clients received from generate_keypair       *)
(*   signed  the last message_sign result a client received                *)
(*   slots   per worker: the request it holds and the response it produced *)
(***************************************************************************)
NoRequest == Request("none", FALSE, [none |-> TRUE])
NoResponse == [status |-> 0, body |-> [success |-> FALSE], ix |-> NoInstruction]
Idle == [phase |-> "idle", req |-> NoRequest, resp |-> NoResponse]
NotSigned ==
    [has |-> FALSE, signature |-> <<>>, public_key |-> <<>>, message |-> <<>>, secret |-> <<>>]

\* one worker: requests are served one at a time
Init ==
    /\ rng = 0
    /\ issued = {}
    /\ signed = NotSigned
    /\ slots = [s \in {1} |-> Idle]

\* NumWorkers workers: requests are served side by side
InitConcurrent ==
    /\ rng = 0
    /\ issued = {}
    /\ signed = NotSigned
    /\ slots = [s \in 1..NumWorkers |-> Idle]

Pending(s, ep) == slots[s].phase = "pending" /\ slots[s].req.ep = ep

\* generate_keypair requests accepted and not yet served
Waiting == Cardinality({s \in DOMAIN slots : Pending(s, "generate_keypair")})

\* the router hands request r to worker s
Submit(s, r) ==
    /\ slots[s].phase = "idle"
    /\ r.ep = "generate_keypair" => rng + Waiting < MaxKeys
    /\ slots' = [slots EXCEPT ![s] = [phase |-> "pending", req |-> r, resp |-> NoResponse]]
    /\ UNCHANGED <<rng, issued, signed>>

Respond(s, resp) ==
    slots' = [slots EXCEPT ![s] = [@ EXCEPT !.phase = "done", !.resp = resp]]

generate_keypair(s) ==
    /\ Pending(s, "generate_keypair")
    /\ Respond(s, generate_keypair_reply(rng))
    /\ rng' = rng + 1
    /\ UNCHANGED <<issued, signed>>

create_token(s) ==
    /\ Pending(s, "create_token")
    /\ Respond(s, create_token_reply(slots[s].req.payload))
    /\ UNCHANGED <<rng, issued, signed>>

token_mint(s) ==
    /\ Pending(s, "token_mint")
    /\ Respond(s, token_mint_reply(slots[s].req.payload))
    /\ UNCHANGED <<rng, issued, signed>>

message_sign(s) ==
    /\ Pending(s, "message_sign")
    /\ Respond(s, message_sign_reply(slots[s].req.payload))
    /\ UNCHANGED <<rng, issued, signed>>

message_verify(s) ==
    /\ Pending(s, "message_verify")
    /\ Respond(s, message_verify_reply(slots[s].req.payload))
    /\ UNCHANGED <<rng, issued, signed>>

transfer_sol(s) ==
    /\ Pending(s, "transfer_sol")
    /\ Respond(s, transfer_sol_reply(slots[s].req.payload))
    /\ UNCHANGED <<rng, issued, signed>>

transfer_token(s) ==
    /\ Pending(s, "transfer_token")
    /\ Respond(s, transfer_token_reply(slots[s].req.payload))
    /\ UNCHANGED <<rng, issued, signed>>

\* the client of worker s takes the response and keeps what it can reuse
Deliver(s) ==
    /\ slots[s].phase = "done"
    /\ slots' = [slots EXCEPT ![s] = Idle]
    /\ issued' = IF slots[s].req.ep = "generate_keypair" /\ slots[s].resp.status = OK
                 THEN issued \cup {slots[s].resp.body.data}
                 ELSE issued
    /\ signed' = IF slots[s].req.ep = "message_sign" /\ slots[s].resp.status = OK
                 THEN [has |-> TRUE,
                       signature |-> slots[s].resp.body.data.signature,
                       public_key |-> slots[s].resp.body.data.public_key,
                       message |-> slots[s].req.payload.v.message,
                       secret |-> slots[s].req.payload.v.secret]
                 ELSE signed
    /\ UNCHANGED rng

Workers == DOMAIN slots

Next ==
    \/ \E s \in Workers :
          /\ slots[s].phase = "idle"
          /\ \E r \in Requests(issued, signed) : Submit(s, r)
    \/ \E s \in Workers : generate_keypair(s)
    \/ \E s \in Workers : create_token(s)
    \/ \E s \in Workers : token_mint(s)
    \/ \E s \in Workers : message_sign(s)
    \/ \E s \in Workers : message_verify(s)
    \/ \E s \in Workers : transfer_sol(s)
    \/ \E s \in Workers : transfer_token(s)
    \/ \E s \in Workers : Deliver(s)

NextConcurrent ==
    \/ \E s \in Workers :
          /\ slots[s].phase = "idle"
          /\ \E r \in ConcurrentRequests : Submit(s, r)
    \/ \E s \in Workers : generate_keypair(s)
    \/ \E s \in Workers : create_token(s)
    \/ \E s \in Workers : token_mint(s)
    \/ \E s \in Workers : message_sign(s)
    \/ \E s \in Workers : message_verify(s)
    \/ \E s \in Workers : transfer_sol(s)
    \/ \E s \in Workers : transfer_token(s)
    \/ \E s \in Workers : Deliver(s)

Spec == Init /\ [][Next]_vars

SpecConcurrent == InitConcurrent /\ [][NextConcurrent]_vars

(***************************************************************************)
(* Vocabulary of the properties                                            *)
(***************************************************************************)
\* worker s holds the response to a request for endpoint ep
Done(s, ep) == slots[s].phase = "done" /\ slots[s].req.ep = ep

\* the struct the handler was given, and the response it gave
Fields(s) == slots[s].req.payload.v
Decoded(s) == slots[s].req.payload.ok
Resp(s) == slots[s].resp

\* a base-58 text of exactly 32 bytes
IsIdentifierText(t) ==
    LET d == DecodeBase58(t) IN d.ok /\ Len(d.bytes) = PUBKEY_BYTES

\* a base-58 text of exactly 64 bytes
IsSignatureText(t) ==
    LET d == DecodeBase58(t) IN d.ok /\ Len(d.bytes) = SIGNATURE_BYTES

IdentifierOf(t) == DecodeBase58(t).bytes

ErrorStrings ==
    {"Failed to generate keypair", "Invalid request body", "Missing required fields",
     "Invalid sender address", "Invalid recipient address", "Invalid mint address",
     "Invalid public key format", "Invalid signature format",
     "Invalid secret key format", "Invalid keypair bytes",
     "Amount must be greater than 0", "Hello"}

\* status 200, success = true, data present, no error
IsSuccess(resp) ==
    /\ resp.status = OK
    /\ DOMAIN resp.body = {"success", "data"}
    /\ resp.body.success = TRUE

\* status 400, success = false, one error string, no data
IsFailure(resp) ==
    /\ resp.status = BAD_REQUEST
    /\ DOMAIN resp.body = {"success", "error"}
    /\ resp.body.success = FALSE
    /\ resp.body.error \in ErrorStrings

\* the failure with exactly this error, reached before any instruction was built
FailsWith(resp, error) ==
    /\ IsFailure(resp)
    /\ resp.body.error = error
    /\ ~resp.ix.built

\* the identifier fields of each endpoint's request
IdentifierFields(ep) ==
    CASE ep = "create_token" -> {"mint", "mintAuthority"}
      [] ep = "token_mint" -> {"mint", "destination", "authority"}
      [] ep = "message_verify" -> {"pubkey"}
      [] ep = "transfer_sol" -> {"from", "to"}
      [] ep = "transfer_token" -> {"owner", "destination", "mint"}
      [] OTHER -> {}

\* the keypair, among those generate_keypair returned, that produced `signed`
SignedBy(k) == signed.has /\ k \in issued /\ signed.secret = k.secret

(***************************************************************************)
(* C1                                                                      *)
(***************************************************************************)
\* C1 (as stated): for a keypair k returned by generate_keypair and the
\* signature message_sign returned for (m, k.secret), message_verify answers
\* valid = true for m and k's pubkey, and valid = false for the same signature
\* with m and any other identifier, or with k's pubkey and any message other
\* than m.
C1_RoundTripAnyMessage ==
    \A s \in Workers : \A k \in issued :
        (/\ Done(s, "message_verify") /\ Decoded(s)
         /\ SignedBy(k)
         /\ Fields(s).signature = signed.signature)
        => /\ (Fields(s).message = signed.message /\ Fields(s).pubkey = k.pubkey)
                => (IsSuccess(Resp(s)) /\ Resp(s).body.data.valid = TRUE)
           /\ (/\ Fields(s).message = signed.message
               /\ Fields(s).pubkey # k.pubkey
               /\ IsIdentifierText(Fields(s).pubkey))
                => (IsSuccess(Resp(s)) /\ Resp(s).body.data.valid = FALSE)
           /\ (Fields(s).message # signed.message /\ Fields(s).pubkey = k.pubkey)
                => (IsSuccess(Resp(s)) /\ Resp(s).body.data.valid = FALSE)

\* C1 (amended): the same, for a non-empty message in place of m: an empty
\* message is answered 400 "Missing required fields", with no valid field.
C1_RoundTrip ==
    \A s \in Workers : \A k \in issued :
        (/\ Done(s, "message_verify") /\ Decoded(s)
         /\ SignedBy(k)
         /\ Fields(s).signature = signed.signature)
        => /\ (Fields(s).message = signed.message /\ Fields(s).pubkey = k.pubkey)
                => (IsSuccess(Resp(s)) /\ Resp(s).body.data.valid = TRUE)
           /\ (/\ Fields(s).message = signed.message
               /\ Fields(s).pubkey # k.pubkey
               /\ IsIdentifierText(Fields(s).pubkey))
                => (IsSuccess(Resp(s)) /\ Resp(s).body.data.valid = FALSE)
           /\ (/\ Fields(s).message # signed.message
               /\ Fields(s).message # EMPTY
               /\ Fields(s).pubkey = k.pubkey)
                => (IsSuccess(Resp(s)) /\ Resp(s).body.data.valid = FALSE)
           /\ (Fields(s).message = EMPTY)
                => FailsWith(Resp(s), "Missing required fields")

\* a signature obtained from a generated keypair was verified against that
\* keypair's pubkey and the signed message
C1_Witness ==
    \E s \in Workers : \E k \in issued :
        /\ Done(s, "message_verify") /\ Decoded(s)
        /\ SignedBy(k)
        /\ Fields(s).signature = signed.signature
        /\ Fields(s).message = signed.message
        /\ Fields(s).pubkey = k.pubkey
        /\ Resp(s).status = OK

(***************************************************************************)
(* C2                                                                      *)
(***************************************************************************)
\* C2: a request to an endpoint with identifier fields in which at least one
\* of them is malformed (not base-58, or not 32 bytes) is answered with a
\* failure (400, success = false, an error string), whatever the other fields.
C2_MalformedIdentifierFails ==
    \A s \in Workers :
        (/\ slots[s].phase = "done" /\ Decoded(s)
         /\ \E f \in IdentifierFields(slots[s].req.ep) : ~IsIdentifierText(Fields(s)[f]))
        => IsFailure(Resp(s))

\* transfer_token answered a request whose only flaw is a malformed mint
C2_Witness ==
    \E s \in Workers :
        /\ Done(s, "transfer_token") /\ Decoded(s)
        /\ IsIdentifierText(Fields(s).owner)
        /\ IsIdentifierText(Fields(s).destination)
        /\ Fields(s).mint = NOT_BASE58
        /\ ~IsZero(Fields(s).amount)
        /\ Resp(s).status = BAD_REQUEST

(***************************************************************************)
(* C3                                                                      *)
(***************************************************************************)
\* C3: transfer_sol with well-formed from and to: lamports = 0 is rejected
\* with 400 "Amount must be greater than 0"; any other lamports succeeds and
\* the instruction has exactly two accounts, from (signer, writable) then to
\* (writable, not signer).
C3_TransferSol ==
    \A s \in Workers :
        (/\ Done(s, "transfer_sol") /\ Decoded(s)
         /\ IsIdentifierText(Fields(s).from)
         /\ IsIdentifierText(Fields(s).to))
        => IF IsZero(Fields(s).lamports)
           THEN FailsWith(Resp(s), "Amount must be greater than 0")
           ELSE /\ IsSuccess(Resp(s))
                /\ Resp(s).ix.built
                /\ Resp(s).ix.accounts =
                     <<[pubkey |-> IdentifierOf(Fields(s).from),
                        is_signer |-> TRUE, is_writable |-> TRUE],
                       [pubkey |-> IdentifierOf(Fields(s).to),
                        is_signer |-> FALSE, is_writable |-> TRUE]>>
                /\ Resp(s).body.data.accounts = <<Fields(s).from, Fields(s).to>>

\* transfer_sol built an instruction for one lamport
C3_Witness ==
    \E s \in Workers :
        /\ Done(s, "transfer_sol") /\ Decoded(s)
        /\ Fields(s).lamports = U64_ONE
        /\ Fields(s).from # Fields(s).to
        /\ Resp(s).status = OK
        /\ Len(Resp(s).ix.accounts) = 2

(***************************************************************************)
(* C4                                                                      *)
(***************************************************************************)
\* C4: create_token with well-formed mint and mintAuthority: decimals = 0 is
\* rejected with a 400 failure; every decimals in 1..255 is accepted, and the
\* account list returned has exactly one entry: the supplied mint, writable,
\* not a signer.
C4_CreateToken ==
    \A s \in Workers :
        (/\ Done(s, "create_token") /\ Decoded(s)
         /\ IsIdentifierText(Fields(s).mint)
         /\ IsIdentifierText(Fields(s).mintAuthority))
        => IF Fields(s).decimals = 0
           THEN IsFailure(Resp(s))
           ELSE /\ Fields(s).decimals \in 1..255
                /\ IsSuccess(Resp(s))
                /\ Resp(s).body.data.accounts =
                     <<[pubkey |-> Fields(s).mint,
                        is_signer |-> FALSE, is_writable |-> TRUE]>>

\* create_token accepted decimals = 9 for a mint other than its authority
C4_Witness ==
    \E s \in Workers :
        /\ Done(s, "create_token") /\ Decoded(s)
        /\ Fields(s).decimals = 9
        /\ Fields(s).mint # Fields(s).mintAuthority
        /\ Resp(s).status = OK
        /\ Len(Resp(s).body.data.accounts) = 1

(***************************************************************************)
(* C5                                                                      *)
(***************************************************************************)
\* C5: token_mint with well-formed mint, destination and authority and a
\* non-zero amount returns exactly three accounts, in this order: mint
\* (writable, not signer), destination (writable, not signer), authority
\* (signer, not writable).
C5_TokenMintThreeAccounts ==
    \A s \in Workers :
        (/\ Done(s, "token_mint") /\ Decoded(s)
         /\ IsIdentifierText(Fields(s).mint)
         /\ IsIdentifierText(Fields(s).destination)
         /\ IsIdentifierText(Fields(s).authority)
         /\ ~IsZero(Fields(s).amount))
        => /\ IsSuccess(Resp(s))
           /\ Resp(s).body.data.accounts =
                <<[pubkey |-> Fields(s).mint,
                   is_signer |-> FALSE, is_writable |-> TRUE],
                  [pubkey |-> Fields(s).destination,
                   is_signer |-> FALSE, is_writable |-> TRUE],
                  [pubkey |-> Fields(s).authority,
                   is_signer |-> TRUE, is_writable |-> FALSE]>>

\* token_mint answered a well-formed request with a non-zero amount
C5_Reached ==
    \E s \in Workers :
        /\ Done(s, "token_mint") /\ Decoded(s)
        /\ IsIdentifierText(Fields(s).mint)
        /\ IsIdentifierText(Fields(s).destination)
        /\ IsIdentifierText(Fields(s).authority)
        /\ ~IsZero(Fields(s).amount)
        /\ Len(Resp(s).body.data.accounts) = 4

(***************************************************************************)
(* C6                                                                      *)
(***************************************************************************)
\* the bytes a 64-byte keypair encoding derives its public half from, and
\* whether the public half it carries is that one
SecretHalf(bytes) == SubSeq(bytes, 1, SECRET_KEY_LENGTH)
PublicHalf(bytes) == SubSeq(bytes, SECRET_KEY_LENGTH + 1, KEYPAIR_LENGTH)
IsKeypairBytes(bytes) ==
    /\ Len(bytes) = KEYPAIR_LENGTH
    /\ PublicHalf(bytes) = PublicFromSecret(SecretHalf(bytes))

\* message_sign reached the decoded secret: the body decoded, no field is
\* empty and the secret is base-58
ReachedKeypair(s) ==
    /\ Done(s, "message_sign") /\ Decoded(s)
    /\ Fields(s).message # EMPTY
    /\ Fields(s).secret # EMPTY
    /\ DecodeBase58(Fields(s).secret).ok

\* C6 (as stated): a secret of exactly 64 bytes (private || public) or exactly
\* 32 bytes (private only) of well-formed key material is accepted and the
\* response carries the derived public_key, the same every time; a secret of
\* any other length fails with 400 "Invalid keypair bytes" and no signature.
C6_SeedOrKeypairAccepted ==
    \A s \in Workers :
        ReachedKeypair(s) =>
            LET bytes == DecodeBase58(Fields(s).secret).bytes
            IN /\ IsKeypairBytes(bytes)
                    => /\ IsSuccess(Resp(s))
                       /\ Resp(s).body.data.public_key = ToBase58String(PublicHalf(bytes))
               /\ Len(bytes) = SECRET_KEY_LENGTH
                    => /\ IsSuccess(Resp(s))
                       /\ Resp(s).body.data.public_key =
                            ToBase58String(PublicFromSecret(bytes))
               /\ Len(bytes) \notin {SECRET_KEY_LENGTH, KEYPAIR_LENGTH}
                    => FailsWith(Resp(s), "Invalid keypair bytes")

\* C6 (amended): with a non-empty message and a non-empty base-58 secret, a
\* secret of exactly 64 bytes whose public half is the one its private half
\* derives is accepted and the response carries that public_key, the same as
\* the last time the same secret was used; a secret of any other length, 32
\* bytes included, fails with 400 "Invalid keypair bytes" and no signature.
C6_KeypairBytesOnly ==
    \A s \in Workers :
        ReachedKeypair(s) =>
            LET bytes == DecodeBase58(Fields(s).secret).bytes
            IN /\ IsKeypairBytes(bytes)
                    => /\ IsSuccess(Resp(s))
                       /\ Resp(s).body.data.public_key = ToBase58String(PublicHalf(bytes))
                       /\ (signed.has /\ signed.secret = Fields(s).secret)
                            => Resp(s).body.data.public_key = signed.public_key
               /\ Len(bytes) # KEYPAIR_LENGTH
                    => FailsWith(Resp(s), "Invalid keypair bytes")

\* message_sign rebuilt a keypair from a secret it had already signed with
C6_Witness ==
    \E s \in Workers :
        /\ ReachedKeypair(s)
        /\ IsKeypairBytes(DecodeBase58(Fields(s).secret).bytes)
        /\ signed.has /\ signed.secret = Fields(s).secret
        /\ signed.message # Fields(s).message
        /\ Resp(s).status = OK

(***************************************************************************)
(* C7                                                                      *)
(***************************************************************************)
\* the error of the first check that fails, "" when none does
FirstFailure(checks) ==
    IF \E i \in 1..Len(checks) : checks[i][1]
    THEN checks[CHOOSE i \in 1..Len(checks) :
                    checks[i][1] /\ \A j \in 1..(i - 1) : ~checks[j][1]][2]
    ELSE ""

\* each endpoint's checks in the order of the claim: body decode, empty or
\* zero required fields, the identifier parses in source order, the amount
\* rule; what is left after them is the builder
ExpectedError(req) ==
    LET ok == req.payload.ok
        v == req.payload.v
        bad(t) == ~IsIdentifierText(t)
    IN CASE req.ep = "generate_keypair" -> ""
         [] req.ep = "create_token" ->
              FirstFailure(<<
                <<~ok, "Invalid request body">>,
                <<v.mintAuthority = EMPTY \/ v.mint = EMPTY \/ v.decimals = 0,
                  "Missing required fields">>,
                <<bad(v.mint), "Invalid sender address">>,
                <<bad(v.mintAuthority), "Invalid sender address">> >>)
         [] req.ep = "token_mint" ->
              FirstFailure(<<
                <<~ok, "Invalid request body">>,
                <<v.mint = EMPTY \/ v.destination = EMPTY \/ v.authority = EMPTY
                     \/ IsZero(v.amount),
                  "Missing required fields">>,
                <<bad(v.mint), "Invalid sender address">>,
                <<bad(v.authority), "Invalid sender address">>,
                <<bad(v.destination), "Invalid sender address">> >>)
         [] req.ep = "message_sign" ->
              FirstFailure(<<
                <<~ok, "Invalid request body">>,
                <<v.message = EMPTY \/ v.secret = EMPTY, "Missing required fields">>,
                <<~DecodeBase58(v.secret).ok, "Invalid secret key format">>,
                <<~IsKeypairBytes(DecodeBase58(v.secret).bytes),
                  "Invalid keypair bytes">> >>)
         [] req.ep = "message_verify" ->
              FirstFailure(<<
                <<~ok, "Invalid request body">>,
                <<v.message = EMPTY \/ v.signature = EMPTY \/ v.pubkey = EMPTY,
                  "Missing required fields">>,
                <<bad(v.pubkey), "Invalid public key format">>,
                <<~IsSignatureText(v.signature), "Invalid signature format">> >>)
         [] req.ep = "transfer_sol" ->
              FirstFailure(<<
                <<~ok, "Invalid request body">>,
                <<v.from = EMPTY \/ v.to = EMPTY, "Missing required fields">>,
                <<bad(v.from), "Invalid sender address">>,
                <<bad(v.to), "Invalid recipient address">>,
                <<IsZero(v.lamports), "Amount must be greater than 0">> >>)
         [] req.ep = "transfer_token" ->
              FirstFailure(<<
                <<~ok, "Invalid request body">>,
                <<v.owner = EMPTY \/ v.destination = EMPTY \/ v.mint = EMPTY,
                  "Missing required fields">>,
                <<bad(v.owner), "Invalid sender address">>,
                <<bad(v.destination), "Invalid recipient address">>,
                <<bad(v.mint), "Invalid mint address">> >>)

\* C7: every response is either a success (200, success = true, data, no
\* error) or a failure (400, success = false, one error string, no data); a
\* failure is the one of the first failing check in the fixed order, with
\* nothing built after it, and a request that fails no check succeeds.
C7_FirstFailureDecides ==
    \A s \in Workers :
        slots[s].phase = "done" =>
            /\ IsSuccess(Resp(s)) # IsFailure(Resp(s))
            /\ IF ExpectedError(slots[s].req) = ""
               THEN IsSuccess(Resp(s))
               ELSE FailsWith(Resp(s), ExpectedError(slots[s].req))

\* transfer_sol answered a request with a malformed sender, a malformed
\* recipient and a zero amount at once
C7_Witness ==
    \E s \in Workers :
        /\ Done(s, "transfer_sol") /\ Decoded(s)
        /\ Fields(s).from = NOT_BASE58
        /\ Fields(s).to = ID_SHORT
        /\ IsZero(Fields(s).lamports)
        /\ Resp(s).body.error = "Invalid sender address"

(***************************************************************************)
(* C8                                                                      *)
(***************************************************************************)
\* C8: message_verify answers 400 exactly when the body cannot be decoded, a
\* field is empty, or the pubkey or the signature text does not parse; every
\* other request is answered 200 with success = true and valid equal to the
\* result of the verification, valid = false included.
C8_VerifyErrorsApart ==
    \A s \in Workers :
        Done(s, "message_verify") =>
            LET invalid == \/ ~Decoded(s)
                           \/ Fields(s).message = EMPTY
                           \/ Fields(s).signature = EMPTY
                           \/ Fields(s).pubkey = EMPTY
                           \/ ~IsIdentifierText(Fields(s).pubkey)
                           \/ ~IsSignatureText(Fields(s).signature)
            IN IF invalid
               THEN IsFailure(Resp(s))
               ELSE /\ IsSuccess(Resp(s))
                    /\ Resp(s).body.data.valid =
                         SignatureVerify(DecodeBase58(Fields(s).signature).bytes,
                                         IdentifierOf(Fields(s).pubkey),
                                         Fields(s).message)

\* message_verify answered a real signature presented with the wrong message
C8_Witness ==
    \E s \in Workers :
        /\ Done(s, "message_verify") /\ Decoded(s)
        /\ Fields(s).signature = SIG_A_HELLO
        /\ Fields(s).pubkey = ID_A
        /\ Fields(s).message = HELLP
        /\ Resp(s).status = OK
        /\ Resp(s).body.data.valid = FALSE

(***************************************************************************)
(* C9                                                                      *)
(***************************************************************************)
\* the response a request other than generate_keypair gets when served alone
AloneReply(req) ==
    CASE req.ep = "create_token" -> create_token_reply(req.payload)
      [] req.ep = "token_mint" -> token_mint_reply(req.payload)
      [] req.ep = "message_sign" -> message_sign_reply(req.payload)
      [] req.ep = "message_verify" -> message_verify_reply(req.payload)
      [] req.ep = "transfer_sol" -> transfer_sol_reply(req.payload)
      [] req.ep = "transfer_token" -> transfer_token_reply(req.payload)

\* C9: with requests served side by side in any interleaving, the response to
\* every request other than generate_keypair is the one it gets when served
\* alone, whatever ran before or alongside it: equal requests have equal
\* responses, and a response does not depend on the state it was computed in.
C9_Independent ==
    \A s \in Workers :
        (slots[s].phase = "done" /\ slots[s].req.ep # "generate_keypair")
        => /\ Resp(s) = AloneReply(slots[s].req)
           /\ \A t \in Workers :
                (slots[t].phase = "done" /\ slots[t].req = slots[s].req)
                => Resp(t) = Resp(s)

\* two workers hold responses to the same message_sign request after the
\* random source was drawn from
C9_Witness ==
    \E s \in Workers : \E t \in Workers \ {s} :
        /\ Done(s, "message_sign") /\ Done(t, "message_sign")
        /\ slots[s].req = slots[t].req
        /\ Resp(s).status = OK
        /\ rng > 0

(***************************************************************************)
(* C10                                                                     *)
(***************************************************************************)
\* C10: transfer_token with well-formed owner, destination and mint succeeds
\* (200, an instruction descriptor) for every amount, zero included: the
\* amount never makes it fail; transfer_sol with well-formed from and to and
\* lamports = 0 is rejected with 400.
C10_ZeroAmountAsymmetry ==
    \A s \in Workers :
        /\ (/\ Done(s, "transfer_token") /\ Decoded(s)
            /\ IsIdentifierText(Fields(s).owner)
            /\ IsIdentifierText(Fields(s).destination)
            /\ IsIdentifierText(Fields(s).mint))
           => /\ IsSuccess(Resp(s))
              /\ Resp(s).ix.built
              /\ DOMAIN Resp(s).body.data = {"program_id", "accounts", "instruction_data"}
        /\ (Done(s, "transfer_token") /\ IsFailure(Resp(s)))
           => \/ ~Decoded(s)
              \/ \E f \in IdentifierFields("transfer_token") : ~IsIdentifierText(Fields(s)[f])
        /\ (/\ Done(s, "transfer_sol") /\ Decoded(s)
            /\ IsIdentifierText(Fields(s).from)
            /\ IsIdentifierText(Fields(s).to)
            /\ IsZero(Fields(s).lamports))
           => IsFailure(Resp(s))

\* transfer_token built an instruction for an amount of zero
C10_Witness ==
    \E s \in Workers :
        /\ Done(s, "transfer_token") /\ Decoded(s)
        /\ IsZero(Fields(s).amount)
        /\ Resp(s).status = OK
        /\ Resp(s).ix.built

====
